---- MODULE Spec2Model ----
(***************************************************************************)
(* A model of mozaik's analysis code:                                      *)
(*   - mozaik/meta_workflow/analysis.py: loading the datastores of a       *)
(*     parameter search and exporting their SingleValues as matrices;      *)
(*   - mozaik/analysis/analysis.py: the analysis routines                  *)
(*     (vector-average preference and selectivity, GSTA, ModulationRatio). *)
(* Each routine has its own specification (SpecSweep for the export,       *)
(* SpecRun for run_analysis_on_parameter_search, SpecMR, SpecGSTA,         *)
(* SpecVA) and SpecPerform runs the perform_analysis of any of the five    *)
(* routines; the variables of the other routines stay idle.                *)
(***************************************************************************)
EXTENDS Integers, Sequences, FiniteSets, TLC

VARIABLES
    \* ---- meta_workflow/analysis.py ----
    combinations,    \* the unpickled manifest: a list of parameter mappings
    sweepKind,       \* which SingleValues the analysis run on the sweep stored
    deviated,        \* whether some store already differs from sweepKind
    pc,              \* control location of the running function
    i,               \* loop index (1-based) into combinations / datastore
    parameters,      \* combinations[0].keys()
    datastore,       \* list of (parameter values, loaded store)
    number_of_unloadable_datastores,
    error,           \* the exception that ended the call, "" if none
    value_names,     \* set of value names of the first store
    param_values,    \* per parameter, its sorted distinct values
    dimensions,      \* per parameter, the number of distinct values
    matrix,          \* the array built last
    files,           \* value name -> array pickled to <value name>.txt
    calls,           \* the arguments analysis_function was called with, in order
    saved,           \* the objects whose save() has run, in order
    \* ---- analysis/analysis.py: routines over the sheets of a datastore ----
    analysis_results, \* the records of the full datastore, in order of addition
    sheet_list,      \* datastore.sheets(), in the order the loop visits them
    sheet_i,         \* index (1-based) of the sheet being processed
    a_pc,            \* control location of perform_analysis
    a_error,         \* the exception that ended perform_analysis, "" if none
    todo,            \* keys of the dictionary d (items of the zip) not yet iterated
    dsv,             \* the view held by the local variable dsv
    recordings,      \* per sheet, the stimulus groups that were recorded
    asserts_pass,    \* per sheet, whether the assertions on its view hold
    \* ---- analysis/analysis.py: GSTA.do_gsta ----
    analog_signal,   \* per trial, the conductance trace
    length,          \* parameters.length
    g_pc,            \* control location of do_gsta
    g_trial,         \* index (1-based) of the (trace, spike train) pair
    g_nspk,          \* spikes of the current train iterated so far
    time,            \* the spike time iterated last
    gsta,            \* the running sum
    count,           \* the number of windows summed
    g_result,        \* the returned signal, as sums over a divisor
    g_seen,          \* history: spikes iterated so far, over all trials
    g_inside         \* history: all of them were strictly inside the window

sweepVars == <<combinations, sweepKind, deviated, pc, i, parameters, datastore,
               number_of_unloadable_datastores, error, value_names,
               param_values, dimensions, matrix, files, calls, saved>>

anaVars == <<analysis_results, sheet_list, sheet_i, a_pc, a_error, todo, dsv,
             recordings, asserts_pass>>

gstaVars == <<analog_signal, length, g_pc, g_trial, g_nspk, time, gsta, count,
              g_result, g_seen, g_inside>>

vars == <<sweepVars, anaVars, gstaVars>>

runVars == <<calls, saved>>

\* Largest manifest of the grid family, and of the key-order family.
MaxComb == 4
MaxKeyComb == 2

(***************************************************************************)
(* Python 2 dict and set: a table of 8 slots with open addressing.  The    *)
(* iteration order (keys(), tuple(set(...))) is the slot order, which      *)
(* depends on the hashes and, for colliding keys, on the insertion order.  *)
(***************************************************************************)
Names == {"gain", "d", "tau"}

\* Low 15 bits of Python 2's 64-bit string hash of each parameter name.
StringHash(k) ==
    CASE k = "gain" -> 16213
      [] k = "d"    -> 5733
      [] k = "tau"  -> 31105

NoKey == "<free>"
EmptyTable == [s \in 0..7 |-> NoKey]

RECURSIVE ProbeSlot(_, _, _)
ProbeSlot(table, slot, perturb) ==
    IF table[slot] = NoKey THEN slot
    ELSE ProbeSlot(table, (5 * slot + perturb + 1) % 8, perturb \div 32)

TableInsert(table, k) ==
    [table EXCEPT ![ProbeSlot(table, StringHash(k) % 8, StringHash(k))] = k]

RECURSIVE TableInsertAll(_, _)
TableInsertAll(table, ks) ==
    IF ks = << >> THEN table
    ELSE TableInsertAll(TableInsert(table, Head(ks)), Tail(ks))

RECURSIVE SlotOrder(_, _)
SlotOrder(table, slot) ==
    IF slot > 7 THEN << >>
    ELSE (IF table[slot] = NoKey THEN << >> ELSE <<table[slot]>>)
         \o SlotOrder(table, slot + 1)

\* Iteration order of a dict or set into which ks were inserted in order.
TableOrder(ks) == SlotOrder(TableInsertAll(EmptyTable, ks), 0)

Range(s) == {s[x] : x \in DOMAIN s}

\* comb.keys(): a combination is [ins |-> insertion order, val |-> values].
Keys(comb) == TableOrder(comb.ins)

\* tuple(set(comb.keys()))
KeyTuple(comb) == TableOrder(Keys(comb))

\* The assertion of line 32.
FixedParameterSet(combs) ==
    Cardinality({KeyTuple(combs[x]) : x \in DOMAIN combs}) = 1

(***************************************************************************)
(* Stores.  A store holds SingleValue records; the query of                *)
(* export_as_matricies keeps the records tagged "q".                       *)
(***************************************************************************)
SV(name, tag, value) == [value_name |-> name, tag |-> tag, value |-> value]

StoreKinds == {"one", "pair", "none", "hidden", "two"}

\* The store of the x-th combination of the manifest, by kind.
StoreOf(kind, x) ==
    CASE kind = "one"    -> <<SV("v", "q", 10 * x)>>
      [] kind = "pair"   -> <<SV("v", "q", 10 * x), SV("w", "q", 10 * x + 1)>>
      [] kind = "none"   -> << >>
      [] kind = "hidden" -> <<SV("v", "other", 10 * x)>>
      [] kind = "two"    -> <<SV("v", "q", 10 * x), SV("v", "q", 10 * x + 2)>>

\* query.query(datastore)
Query(store) == SelectSeq(store, LAMBDA r : r.tag = "q")

\* param_filter_query(dsv, identifier='SingleValue', value_name=v).get_analysis_result()
WithValueName(store, v) == SelectSeq(store, LAMBDA r : r.value_name = v)

\* Outcomes of PickledDataStore(load=True, ...): the store, IOError when the
\* files are missing, an unpickling error when their content is corrupt.
LoadOutcomes == {"ok", "missing", "corrupt"}


(***************************************************************************)
(* The manifests explored.  The key-order family varies the parameter      *)
(* names of each combination and their insertion order (all values 1); the *)
(* grid family varies the values of the two parameters "gain" and "tau".   *)
(***************************************************************************)
KeyOrders ==
    {<<k>> : k \in Names}
    \cup {<<k1, k2>> : <<k1, k2>> \in {p \in Names \X Names : p[1] # p[2]}}

KeyCombinations == {[ins |-> o, val |-> [k \in Range(o) |-> 1]] : o \in KeyOrders}

KeyManifests == UNION {[1..n -> KeyCombinations] : n \in 0..MaxKeyComb}

Vals == {1, 2}

GridCombinations ==
    {[ins |-> <<"gain", "tau">>, val |-> [k \in {"gain", "tau"} |->
                                           IF k = "gain" THEN a ELSE b]] :
        <<a, b>> \in Vals \X Vals}

GridManifests == UNION {[1..n -> GridCombinations] : n \in 1..MaxComb}

NoMatrix == << >>
NaN == -1

SweepStart ==
    /\ combinations \in KeyManifests \cup GridManifests
    /\ sweepKind \in {"one", "pair"}
    /\ deviated = FALSE
    /\ pc = "start"
    /\ i = 0
    /\ parameters = << >>
    /\ datastore = << >>
    /\ number_of_unloadable_datastores = 0
    /\ error = ""
    /\ value_names = {}
    /\ param_values = << >>
    /\ dimensions = << >>
    /\ matrix = NoMatrix
    /\ files = << >>
    /\ calls = << >>
    /\ saved = << >>

Raise(e) == pc' = "raised" /\ error' = e

exportVars == <<value_names, param_values, dimensions, matrix, files>>

(***************************************************************************)
(* load_fixed_parameter_set_parameter_search                               *)
(***************************************************************************)
\* Lines 27-37: read the manifest, check the parameter names, set up the loop.
LoadManifest ==
    /\ UNCHANGED <<anaVars, gstaVars>>
    /\ pc = "start"
    /\ IF FixedParameterSet(combinations)
       THEN /\ parameters' = Keys(combinations[1])
            /\ pc' = "load"
            /\ i' = 1
            /\ UNCHANGED error
       ELSE /\ Raise("AssertionError")
            /\ UNCHANGED <<parameters, i>>
    /\ UNCHANGED <<combinations, sweepKind, deviated, datastore,
                   number_of_unloadable_datastores, exportVars, runVars>>

\* [combination[k] for k in parameters]
ValuesOf(comb, params) == [x \in DOMAIN params |-> comb.val[params[x]]]

\* The handler of the try statement of lines 41-46: what is caught.
Caught(outcome) == outcome = "missing"

\* Lines 38-46: one iteration of the loop over the combinations.
\* The stores of a run hold the SingleValues of sweepKind, but for at most
\* one of them, which may hold any of StoreKinds.
LoadCombination ==
    /\ UNCHANGED <<anaVars, gstaVars>>
    /\ pc = "load"
    /\ i <= Len(combinations)
    /\ \E outcome \in LoadOutcomes :
         \/ /\ outcome = "ok"
            /\ \E kind \in StoreKinds :
                 /\ kind = sweepKind \/ ~deviated
                 /\ deviated' = (deviated \/ kind # sweepKind)
                 /\ datastore' = Append(datastore,
                        [pv |-> ValuesOf(combinations[i], parameters),
                         ds |-> StoreOf(kind, i)])
            /\ i' = i + 1
            /\ UNCHANGED <<number_of_unloadable_datastores, pc, error>>
         \/ /\ outcome # "ok"
            /\ Caught(outcome)
            /\ number_of_unloadable_datastores' = number_of_unloadable_datastores + 1
            /\ i' = i + 1
            /\ UNCHANGED <<datastore, deviated, pc, error>>
         \/ /\ outcome # "ok"
            /\ ~Caught(outcome)
            /\ Raise("UnpicklingError")
            /\ UNCHANGED <<datastore, deviated, number_of_unloadable_datastores, i>>
    /\ UNCHANGED <<combinations, sweepKind, parameters, exportVars, runVars>>

\* Line 48: return (parameters, datastore, number_of_unloadable_datastores).
LoadReturn ==
    /\ UNCHANGED <<anaVars, gstaVars>>
    /\ pc = "load"
    /\ i > Len(combinations)
    /\ pc' = "loaded"
    /\ UNCHANGED <<combinations, sweepKind, deviated, i, parameters, datastore,
                   number_of_unloadable_datastores, error, exportVars, runVars>>

(***************************************************************************)
(* export_as_matricies, after its call of the load (line 86)               *)
(***************************************************************************)
loadVars == <<combinations, sweepKind, deviated, parameters, datastore,
              number_of_unloadable_datastores, runVars>>

\* Line 88: the value names of the first store, without the query.
ExportValueNames ==
    /\ UNCHANGED <<anaVars, gstaVars>>
    /\ pc = "loaded"
    /\ IF datastore = << >>
       THEN /\ Raise("IndexError")
            /\ UNCHANGED <<value_names, i>>
       ELSE /\ value_names' = {r.value_name : r \in Range(datastore[1].ds)}
            /\ pc' = "check"
            /\ i' = 1
            /\ UNCHANGED error
    /\ UNCHANGED <<loadVars, param_values, dimensions, matrix, files>>

\* A faulty variant of the assertion of line 95: several matches are accepted.
AtLeastOneValue(store, names) ==
    \A v \in names : Len(WithValueName(Query(store), v)) >= 1

\* The assertion of line 95 for one store.
UniqueValues(store, names) ==
    \A v \in names : Len(WithValueName(Query(store), v)) = 1

\* Lines 92-95: one iteration of the loop over the loaded stores.
ExportCheckStore ==
    /\ UNCHANGED <<anaVars, gstaVars>>
    /\ pc = "check"
    /\ i <= Len(datastore)
    /\ IF UniqueValues(datastore[i].ds, value_names)
       THEN i' = i + 1 /\ UNCHANGED <<pc, error>>
       ELSE Raise("AssertionError") /\ UNCHANGED i
    /\ UNCHANGED <<loadVars, exportVars>>

RECURSIVE SortedSeq(_)
SortedSeq(S) ==
    IF S = {} THEN << >>
    ELSE LET m == CHOOSE x \in S : \A y \in S : x <= y
         IN <<m>> \o SortedSeq(S \ {m})

RECURSIVE Prod(_)
Prod(s) == IF s = << >> THEN 1 ELSE Head(s) * Prod(Tail(s))

\* Line 101: sorted(set(params[:,x])) for each parameter.
ParamValues(dss, num_params) ==
    [x \in 1..num_params |-> SortedSeq({dss[y].pv[x] : y \in DOMAIN dss})]

\* A faulty variant of the assertion of line 107: the unloadable stores are
\* not counted.
CompleteIgnoringUnloadable(dss, n, dims) == Len(dss) = Prod(dims)

\* The assertion of line 107.
Complete(dss, n, dims) == Len(dss) + n = Prod(dims)

\* Lines 97-107: the axes of the grid and the check of its size.
ExportDimensions ==
    /\ UNCHANGED <<anaVars, gstaVars>>
    /\ pc = "check"
    /\ i > Len(datastore)
    /\ LET pvs == ParamValues(datastore, Len(parameters))
           dims == [x \in DOMAIN pvs |-> Len(pvs[x])]
       IN /\ param_values' = pvs
          /\ dimensions' = dims
          /\ IF Complete(datastore, number_of_unloadable_datastores, dims)
             THEN pc' = "fill" /\ UNCHANGED error
             ELSE Raise("AssertionError")
    /\ UNCHANGED <<loadVars, i, value_names, matrix, files>>


(***************************************************************************)
(* numpy arrays: a function from 0-based index tuples to values.           *)
(***************************************************************************)
MaxOf(s) == IF s = << >> THEN 0 ELSE CHOOSE m \in Range(s) : \A x \in Range(s) : x <= m

IndexTuples(dims) ==
    {t \in [DOMAIN dims -> 0..(MaxOf(dims) - 1)] : \A x \in DOMAIN dims : t[x] < dims[x]}

\* Lines 110-111: numpy.zeros(dimensions) filled with NaN.
NaNMatrix(dims) == [t \in IndexTuples(dims) |-> NaN]

\* list.index: the 0-based position of val in the sorted list.
IndexIn(list, val) == (CHOOSE x \in DOMAIN list : list[x] = val) - 1

\* Line 113: the position of each parameter value on its axis, as a list.
IndexList(pvs, pv) == [x \in DOMAIN pvs |-> IndexIn(pvs[x], pv[x])]

\* matrix[index] = value with index a list of integers: numpy takes a list
\* (not a tuple) of integers as an index array along the first axis, so the
\* rows index[0], index[1], ... are assigned; a position outside the first
\* axis raises IndexError.
RowsInBounds(dims, index) == \A x \in DOMAIN index : index[x] < dims[1]

SetItem(m, index, value) ==
    [t \in DOMAIN m |-> IF t[1] \in Range(index) THEN value ELSE m[t]]

\* Lines 112-115: the loop over the loaded stores for the value name v;
\* the result is [ok, m]: ok is FALSE when an assignment raised IndexError.
RECURSIVE FillMatrix(_, _, _, _, _)
FillMatrix(m, dss, v, pvs, dims) ==
    IF dss = << >> THEN [ok |-> TRUE, m |-> m]
    ELSE LET index == IndexList(pvs, Head(dss).pv)
             value == WithValueName(Query(Head(dss).ds), v)[1].value
         IN IF RowsInBounds(dims, index)
            THEN FillMatrix(SetItem(m, index, value), Tail(dss), v, pvs, dims)
            ELSE [ok |-> FALSE, m |-> m]

\* Lines 109-118: build the array of one value name and pickle it.
ExportMatrix ==
    /\ UNCHANGED <<anaVars, gstaVars>>
    /\ pc = "fill"
    /\ \E v \in value_names \ DOMAIN files :
         LET r == FillMatrix(NaNMatrix(dimensions), datastore, v,
                             param_values, dimensions)
         IN /\ matrix' = r.m
            /\ IF r.ok
               THEN /\ files' = (v :> r.m) @@ files
                    /\ UNCHANGED <<pc, error>>
               ELSE /\ Raise("IndexError")
                    /\ UNCHANGED files
    /\ UNCHANGED <<loadVars, i, value_names, param_values, dimensions>>

\* The end of the loop of line 109: export_as_matricies returns.
ExportReturn ==
    /\ UNCHANGED <<anaVars, gstaVars>>
    /\ pc = "fill"
    /\ value_names \subseteq DOMAIN files
    /\ pc' = "done"
    /\ UNCHANGED <<loadVars, i, error, exportVars>>

(***************************************************************************)
(* run_analysis_on_parameter_search, after its call of the load (line 65)  *)
(***************************************************************************)
\* A Python object: its type and its value.
Object(type, value) == [type |-> type, value |-> value]

\* Line 43 appends the tuple (values, data_store): the elements of the list
\* the loop of line 66 iterates are tuples.
Element(dss, x) == Object("tuple", dss[x])

\* Whether an object of this type has a method save.
HasSave(type) == type = "PickledDataStore"

\* analysis_function is the caller's: it returns or it raises.
CallOutcomes == {"returns", "raises"}

runFrame == <<combinations, sweepKind, deviated, parameters, datastore,
              number_of_unloadable_datastores, exportVars>>

\* Lines 65-66: the result of the load is unpacked and the loop set up.
RunBegin ==
    /\ UNCHANGED <<anaVars, gstaVars>>
    /\ pc = "loaded"
    /\ pc' = "run_call"
    /\ i' = 1
    /\ UNCHANGED <<runFrame, error, runVars>>

\* Line 67: analysis_function(d), d the next element of the list.
RunCall ==
    /\ UNCHANGED <<anaVars, gstaVars>>
    /\ pc = "run_call"
    /\ i <= Len(datastore)
    /\ calls' = Append(calls, Element(datastore, i))
    /\ \E outcome \in CallOutcomes :
         IF outcome = "returns"
         THEN pc' = "run_save" /\ UNCHANGED error
         ELSE Raise("AnalysisError")
    /\ UNCHANGED <<runFrame, i, saved>>

\* Line 68: d.save(), d the object analysis_function was called with.
RunSave ==
    /\ UNCHANGED <<anaVars, gstaVars>>
    /\ pc = "run_save"
    /\ LET d == Element(datastore, i)
       IN IF HasSave(d.type)
          THEN /\ saved' = Append(saved, d)
               /\ i' = i + 1
               /\ pc' = "run_call"
               /\ UNCHANGED error
          ELSE /\ Raise("AttributeError")
               /\ UNCHANGED <<saved, i>>
    /\ UNCHANGED <<runFrame, calls>>

\* The end of the loop of line 66.
RunReturn ==
    /\ UNCHANGED <<anaVars, gstaVars>>
    /\ pc = "run_call"
    /\ i > Len(datastore)
    /\ pc' = "run_done"
    /\ UNCHANGED <<runFrame, i, error, runVars>>

RunNext ==
    \/ LoadManifest
    \/ LoadCombination
    \/ LoadReturn
    \/ RunBegin
    \/ RunCall
    \/ RunSave
    \/ RunReturn

SweepNext ==
    \/ LoadManifest
    \/ LoadCombination
    \/ LoadReturn
    \/ ExportValueNames
    \/ ExportCheckStore
    \/ ExportDimensions
    \/ ExportMatrix
    \/ ExportReturn



(***************************************************************************)
(* The record store of the analysis routines.  A record carries the        *)
(* parameters the routines query; the stimulus is a group (the parameters  *)
(* other than the collapsed one) and the value of the collapsed parameter. *)
(***************************************************************************)
Sheets == {"V1_Exc", "V1_Inh"}
Groups == {"g1", "g2"}
PVals == {"0", "pi/2"}
Collapsed == "-"

Stimulus(g, p) == [group |-> g, param |-> p]

AR(identifier, value_name, sheet, stim) ==
    [identifier |-> identifier, value_name |-> value_name,
     sheet_name |-> sheet, stimulus_id |-> stim]

\* full_datastore.add_analysis_result(record)
AddAnalysisResult(results, record) == Append(results, record)

SheetOrders ==
    {<< >>} \cup {<<s>> : s \in Sheets}
    \cup {<<s1, s2>> : <<s1, s2>> \in {q \in Sheets \X Sheets : q[1] # q[2]}}

RECURSIVE SeqOfSet(_)
SeqOfSet(S) ==
    IF S = {} THEN << >>
    ELSE LET x == CHOOSE y \in S : TRUE IN <<x>> \o SeqOfSet(S \ {x})

RECURSIVE Flatten(_)
Flatten(ss) == IF ss = << >> THEN << >> ELSE Head(ss) \o Flatten(Tail(ss))

MaxPref == 2

AnaIdle ==
    /\ analysis_results = << >>
    /\ sheet_list = << >>
    /\ sheet_i = 0
    /\ a_pc = "idle"
    /\ a_error = ""
    /\ todo = {}
    /\ dsv = << >>
    /\ recordings = << >>
    /\ asserts_pass = << >>

ARaise(e) == a_pc' = "raised" /\ a_error' = e

anaInputs == <<sheet_list, recordings, asserts_pass>>

(***************************************************************************)
(* ModulationRatio.perform_analysis                                        *)
(***************************************************************************)
OrientationPreference(s) ==
    AR("PerNeuronValue", "orientation preference", s, Stimulus("g1", Collapsed))

\* A store holding, for each sheet s, c[s] orientation preference records.
MRStore(c) ==
    LET order == SeqOfSet(Sheets)
    IN Flatten([x \in DOMAIN order |->
                  [y \in 1..c[order[x]] |-> OrientationPreference(order[x])]])

MRStart ==
    /\ sheet_list \in SheetOrders
    /\ recordings \in [Sheets -> (SUBSET Groups) \ {{}}]
    /\ asserts_pass \in [Sheets -> BOOLEAN]
    /\ analysis_results \in {MRStore(c) : c \in [Sheets -> 0..MaxPref]}
    /\ sheet_i = 1
    /\ a_pc = "mr_sheet"
    /\ a_error = ""
    /\ todo = {}
    /\ dsv = << >>

\* Lines 325-331: the next sheet, and the assertions on its view.
MRSheet ==
    /\ UNCHANGED <<sweepVars, gstaVars>>
    /\ a_pc = "mr_sheet"
    /\ sheet_i <= Len(sheet_list)
    /\ IF asserts_pass[sheet_list[sheet_i]]
       THEN a_pc' = "mr_lookup" /\ UNCHANGED a_error
       ELSE ARaise("AssertionError")
    /\ UNCHANGED <<anaInputs, analysis_results, sheet_i, todo, dsv>>

\* Lines 345-347: get_analysis_result(identifier='PerNeuronValue',
\* sheet_name=sheet, value_name='orientation preference')
OrientationPreferences(results, sheet) ==
    SelectSeq(results, LAMBDA r : /\ r.identifier = "PerNeuronValue"
                                  /\ r.sheet_name = sheet
                                  /\ r.value_name = "orientation preference")

\* A faulty variant of the test of line 348: only the absence is detected.
NoneFound(pnvs) == Len(pnvs) = 0

\* The test of line 348.
NotExactlyOne(pnvs) == Len(pnvs) # 1

\* Lines 333-354: the PSTHs and the orientation preference of the sheet.
MRLookup ==
    /\ UNCHANGED <<sweepVars, gstaVars>>
    /\ a_pc = "mr_lookup"
    /\ IF NotExactlyOne(OrientationPreferences(analysis_results, sheet_list[sheet_i]))
       THEN a_pc' = "mr_returned" /\ UNCHANGED todo
       ELSE a_pc' = "mr_groups" /\ todo' = recordings[sheet_list[sheet_i]]
    /\ UNCHANGED <<anaInputs, analysis_results, sheet_i, a_error, dsv>>

ModulationRatioRecord(sheet, st) ==
    AR("PerNeuronValue", "Modulation ratio", sheet, Stimulus(st, Collapsed))

\* A faulty variant of lines 389-397: the modulation ratios are written into
\* the orientation preference record of the sheet.
OverwritePreference(results, sheet, st) ==
    [x \in DOMAIN results |->
        IF results[x].sheet_name = sheet
           /\ results[x].value_name = "orientation preference"
        THEN ModulationRatioRecord(sheet, st)
        ELSE results[x]]

\* Lines 389-397: the record of the modulation ratios goes to the store.
AddModulationRatio(results, sheet, st) ==
    AddAnalysisResult(results, ModulationRatioRecord(sheet, st))

\* Lines 380-397: one iteration over d.items(), adding its record.
MRGroup ==
    /\ UNCHANGED <<sweepVars, gstaVars>>
    /\ a_pc = "mr_groups"
    /\ \E st \in todo :
         /\ analysis_results' =
                AddModulationRatio(analysis_results, sheet_list[sheet_i], st)
         /\ todo' = todo \ {st}
    /\ UNCHANGED <<anaInputs, sheet_i, a_pc, a_error, dsv>>

\* Lines 399-401: the histogram, then the next sheet.
MRSheetEnd ==
    /\ UNCHANGED <<sweepVars, gstaVars>>
    /\ a_pc = "mr_groups"
    /\ todo = {}
    /\ sheet_i' = sheet_i + 1
    /\ a_pc' = "mr_sheet"
    /\ UNCHANGED <<anaInputs, analysis_results, a_error, todo, dsv>>

\* The end of the loop of line 325.
MRReturn ==
    /\ UNCHANGED <<sweepVars, gstaVars>>
    /\ a_pc = "mr_sheet"
    /\ sheet_i > Len(sheet_list)
    /\ a_pc' = "mr_done"
    /\ UNCHANGED <<anaInputs, analysis_results, sheet_i, a_error, todo, dsv>>

MRNext == MRSheet \/ MRLookup \/ MRGroup \/ MRSheetEnd \/ MRReturn

(***************************************************************************)
(* PeriodicTuningCurvePreferenceAndSelectivity_VectorAverage               *)
(*   .perform_analysis, with parameter_name "orientation"                  *)
(***************************************************************************)
FiringRate(s, g, p) == AR("PerNeuronValue", "Firing rate", s, Stimulus(g, p))

\* A store holding, for each sheet s, the firing rates of the stimuli in f[s].
VAStore(f) ==
    LET order == SeqOfSet(Sheets)
    IN Flatten([x \in DOMAIN order |->
                  LET sts == SeqOfSet(f[order[x]])
                  IN [y \in DOMAIN sts |-> FiringRate(order[x], sts[y][1], sts[y][2])]])

VAStart ==
    /\ sheet_list \in SheetOrders
    /\ \E f \in [Sheets -> SUBSET (Groups \X PVals)] :
         /\ \A s \in Sheets \ Range(sheet_list) : f[s] = {}
         /\ analysis_results = VAStore(f)
    /\ recordings = << >>
    /\ asserts_pass = << >>
    /\ sheet_i = 0
    /\ a_pc = "va_begin"
    /\ a_error = ""
    /\ todo = {}
    /\ dsv = << >>

OfIdentifier(results, id) == SelectSeq(results, LAMBDA r : r.identifier = id)

\* select_result_sheet_query(dsv, sheet)
SelectSheet(view, sheet) == SelectSeq(view, LAMBDA r : r.sheet_name = sheet)

\* Lines 131-133: the view of the PerNeuronValues of the datastore.
VABegin ==
    /\ UNCHANGED <<sweepVars, gstaVars>>
    /\ a_pc = "va_begin"
    /\ dsv' = OfIdentifier(analysis_results, "PerNeuronValue")
    /\ sheet_i' = 1
    /\ a_pc' = "va_sheet"
    /\ UNCHANGED <<anaInputs, analysis_results, a_error, todo>>

\* Line 138: the view the loop body works on for `sheet`.
SheetView(view, sheet) == SelectSheet(view, sheet)

\* Lines 134-150: the next sheet, its view and the dictionary d of its stimuli.
\* The records of the explored stores differ in their stimulus only, so the
\* assertions of lines 141-142 hold.
VASheet ==
    /\ UNCHANGED <<sweepVars, gstaVars>>
    /\ a_pc = "va_sheet"
    /\ sheet_i <= Len(sheet_list)
    /\ dsv' = SheetView(dsv, sheet_list[sheet_i])
    /\ IF dsv' = << >>
       THEN a_pc' = "va_done" /\ UNCHANGED todo
       ELSE /\ todo' = {dsv'[x].stimulus_id.group : x \in DOMAIN dsv'}
            /\ a_pc' = "va_groups"
    /\ UNCHANGED <<anaInputs, analysis_results, sheet_i, a_error>>

Preference(sheet, k) ==
    AR("PerNeuronValue", "orientation preference", sheet, Stimulus(k, Collapsed))

Selectivity(sheet, k) ==
    AR("PerNeuronValue", "orientation selectivity", sheet, Stimulus(k, Collapsed))

\* Lines 152-186: one iteration over d.keys(), adding its two records.
VAGroup ==
    /\ UNCHANGED <<sweepVars, gstaVars>>
    /\ a_pc = "va_groups"
    /\ \E k \in todo :
         /\ analysis_results' =
                AddAnalysisResult(
                    AddAnalysisResult(analysis_results,
                                      Preference(sheet_list[sheet_i], k)),
                    Selectivity(sheet_list[sheet_i], k))
         /\ todo' = todo \ {k}
    /\ UNCHANGED <<anaInputs, sheet_i, a_pc, a_error, dsv>>

\* The end of the loop of line 152: on to the next sheet.
VASheetEnd ==
    /\ UNCHANGED <<sweepVars, gstaVars>>
    /\ a_pc = "va_groups"
    /\ todo = {}
    /\ sheet_i' = sheet_i + 1
    /\ a_pc' = "va_sheet"
    /\ UNCHANGED <<anaInputs, analysis_results, a_error, todo, dsv>>

\* The end of the loop of line 134.
VAReturn ==
    /\ UNCHANGED <<sweepVars, gstaVars>>
    /\ a_pc = "va_sheet"
    /\ sheet_i > Len(sheet_list)
    /\ a_pc' = "va_done"
    /\ UNCHANGED <<anaInputs, analysis_results, sheet_i, a_error, todo, dsv>>

VANext == VABegin \/ VASheet \/ VAGroup \/ VASheetEnd \/ VAReturn

(***************************************************************************)
(* The routines that go through the recorded segments of each sheet:       *)
(* TrialAveragedFiringRate, Precision and GSTA.  For the first two,        *)
(* recordings[sheet] is the list of stimuli colapse returns for the sheet  *)
(* (the stimuli with their trial collapsed), as pairs (group, orientation).*)
(***************************************************************************)
StimulusLists ==
    {<< >>} \cup {<<a>> : a \in Groups \X PVals}
    \cup {<<a, b>> : <<a, b>> \in {q \in (Groups \X PVals) \X (Groups \X PVals) :
                                      q[1] # q[2]}}

\* The stores the three routines start from: at most one orientation
\* preference record per sheet.
SegmentStart(start_pc) ==
    /\ sheet_list \in SheetOrders
    /\ recordings \in [Sheets -> StimulusLists]
    /\ asserts_pass = << >>
    /\ analysis_results \in {MRStore(c) : c \in [Sheets -> 0..1]}
    /\ sheet_i = 1
    /\ a_pc = start_pc
    /\ a_error = ""
    /\ todo = << >>
    /\ dsv = << >>

FRStart == SegmentStart("fr_sheet")

\* Lines 86-95: the next sheet and its trial-averaged rates.
FRSheet ==
    /\ UNCHANGED <<sweepVars, gstaVars>>
    /\ a_pc = "fr_sheet"
    /\ sheet_i <= Len(sheet_list)
    /\ todo' = recordings[sheet_list[sheet_i]]
    /\ a_pc' = "fr_add"
    /\ UNCHANGED <<anaInputs, analysis_results, sheet_i, a_error, dsv>>

\* Lines 101-109: one iteration over zip(mean_rates, s), adding its record.
FRAdd ==
    /\ UNCHANGED <<sweepVars, gstaVars>>
    /\ a_pc = "fr_add"
    /\ todo # << >>
    /\ analysis_results' =
           AddAnalysisResult(analysis_results,
               FiringRate(sheet_list[sheet_i], Head(todo)[1], Head(todo)[2]))
    /\ todo' = Tail(todo)
    /\ UNCHANGED <<anaInputs, sheet_i, a_pc, a_error, dsv>>

\* The end of the loop of line 101: on to the next sheet.
FRSheetEnd ==
    /\ UNCHANGED <<sweepVars, gstaVars>>
    /\ a_pc = "fr_add"
    /\ todo = << >>
    /\ sheet_i' = sheet_i + 1
    /\ a_pc' = "fr_sheet"
    /\ UNCHANGED <<anaInputs, analysis_results, a_error, todo, dsv>>

\* The end of the loop of line 86.
FRReturn ==
    /\ UNCHANGED <<sweepVars, gstaVars>>
    /\ a_pc = "fr_sheet"
    /\ sheet_i > Len(sheet_list)
    /\ a_pc' = "fr_done"
    /\ UNCHANGED <<anaInputs, analysis_results, sheet_i, a_error, todo, dsv>>

FRNext == FRSheet \/ FRAdd \/ FRSheetEnd \/ FRReturn

\* Lines 298-309: the AnalogSignalList of the autocorrelations (its
\* y_axis_name stands in the field value_name).
Autocorrelation(s, g, p) ==
    AR("AnalogSignalList", "autocorrelation", s, Stimulus(g, p))

PRStart == SegmentStart("pr_sheet")

\* Lines 265-279: the next sheet and its trial-averaged PSTHs.
PRSheet ==
    /\ UNCHANGED <<sweepVars, gstaVars>>
    /\ a_pc = "pr_sheet"
    /\ sheet_i <= Len(sheet_list)
    /\ todo' = recordings[sheet_list[sheet_i]]
    /\ a_pc' = "pr_add"
    /\ UNCHANGED <<anaInputs, analysis_results, sheet_i, a_error, dsv>>

\* Lines 281-309: one iteration over zip(psths, stids), adding its record.
PRAdd ==
    /\ UNCHANGED <<sweepVars, gstaVars>>
    /\ a_pc = "pr_add"
    /\ todo # << >>
    /\ analysis_results' =
           AddAnalysisResult(analysis_results,
               Autocorrelation(sheet_list[sheet_i], Head(todo)[1], Head(todo)[2]))
    /\ todo' = Tail(todo)
    /\ UNCHANGED <<anaInputs, sheet_i, a_pc, a_error, dsv>>

\* The end of the loop of line 281: on to the next sheet.
PRSheetEnd ==
    /\ UNCHANGED <<sweepVars, gstaVars>>
    /\ a_pc = "pr_add"
    /\ todo = << >>
    /\ sheet_i' = sheet_i + 1
    /\ a_pc' = "pr_sheet"
    /\ UNCHANGED <<anaInputs, analysis_results, a_error, todo, dsv>>

\* The end of the loop of line 265.
PRReturn ==
    /\ UNCHANGED <<sweepVars, gstaVars>>
    /\ a_pc = "pr_sheet"
    /\ sheet_i > Len(sheet_list)
    /\ a_pc' = "pr_done"
    /\ UNCHANGED <<anaInputs, analysis_results, sheet_i, a_error, todo, dsv>>

PRNext == PRSheet \/ PRAdd \/ PRSheetEnd \/ PRReturn

\* Lines 220-226: the ConductanceSignalList of a sheet; it has no stimulus.
ConductanceSignals(s) ==
    AR("ConductanceSignalList", Collapsed, s, Stimulus(Collapsed, Collapsed))

GPStart == SegmentStart("gp_sheet")

\* Lines 207-226: the next sheet; the signals do_gsta returned for its
\* neurons are added as one record.
GPSheet ==
    /\ UNCHANGED <<sweepVars, gstaVars>>
    /\ a_pc = "gp_sheet"
    /\ sheet_i <= Len(sheet_list)
    /\ analysis_results' =
           AddAnalysisResult(analysis_results,
                             ConductanceSignals(sheet_list[sheet_i]))
    /\ sheet_i' = sheet_i + 1
    /\ UNCHANGED <<anaInputs, a_pc, a_error, todo, dsv>>

\* The end of the loop of line 207.
GPReturn ==
    /\ UNCHANGED <<sweepVars, gstaVars>>
    /\ a_pc = "gp_sheet"
    /\ sheet_i > Len(sheet_list)
    /\ a_pc' = "gp_done"
    /\ UNCHANGED <<anaInputs, analysis_results, sheet_i, a_error, todo, dsv>>

GPNext == GPSheet \/ GPReturn

\* perform_analysis of any of the five routines.
PerformNext == FRNext \/ VANext \/ GPNext \/ PRNext \/ MRNext


(***************************************************************************)
(* GSTA.do_gsta.  Times are integers (ticks); a trace is its t_start and   *)
(* its samples, one per sampling period.  The spike trains are read as     *)
(* the loops reach them: each iteration takes any spike time.              *)
(***************************************************************************)
MaxTrials == 2
MaxSpikes == 2

\* analog_signal[0].sampling_period, in ticks.
SamplingPeriod == 2

Times == 0..10

\* The traces explored: constant ones (at 1 and at 2) and a ramp, of 3 or 4
\* samples, starting at tick 0 or 1.
Traces ==
    {[t_start |-> 0, samples |-> <<1, 1, 1, 1>>],
     [t_start |-> 1, samples |-> <<1, 1, 1>>],
     [t_start |-> 0, samples |-> <<2, 2, 2, 2>>],
     [t_start |-> 1, samples |-> <<1, 2, 3, 4>>]}

\* ans.t_stop
TStop(ans) == ans.t_start + Len(ans.samples) * SamplingPeriod

GstaIdle ==
    /\ analog_signal = << >>
    /\ length = 0
    /\ g_pc = "idle"
    /\ g_trial = 0
    /\ g_nspk = 0
    /\ time = 0
    /\ gsta = << >>
    /\ count = 0
    /\ g_result = << >>
    /\ g_seen = 0
    /\ g_inside = TRUE

GstaStart ==
    /\ analog_signal \in UNION {[1..n -> Traces] : n \in 1..MaxTrials}
    /\ length \in {1, 2}
    /\ g_pc = "g_begin"
    /\ g_trial = 0
    /\ g_nspk = 0
    /\ time = 0
    /\ gsta = << >>
    /\ count = 0
    /\ g_result = << >>
    /\ g_seen = 0
    /\ g_inside = TRUE

\* Line 230: gstal = int(self.parameters.length/dt)
Gstal == length \div SamplingPeriod

gstaInputs == <<analog_signal, length>>

\* Lines 229-232.
GstaBegin ==
    /\ UNCHANGED <<sweepVars, anaVars>>
    /\ g_pc = "g_begin"
    /\ gsta' = [x \in 1..(2 * Gstal + 1) |-> 0]
    /\ count' = 0
    /\ g_trial' = 1
    /\ g_nspk' = 0
    /\ g_pc' = "g_loop"
    /\ UNCHANGED <<gstaInputs, time, g_result, g_seen, g_inside>>

\* Line 235.
StrictlyInside(ans, t) == t > ans.t_start /\ t < TStop(ans)

\* Line 236: idx = int((time - ans.t_start)/dt)
SampleBin(ans, t) == (t - ans.t_start) \div SamplingPeriod

\* Line 237.
WindowFits(ans, idx, gstal) ==
    idx - gstal > 0 /\ (idx + gstal + 1) <= Len(ans.samples)

\* Line 238: ans[idx-gstal:idx+gstal+1]
Window(ans, idx, gstal) ==
    [x \in 1..(2 * gstal + 1) |-> ans.samples[idx - gstal + x]]

\* Lines 234-239: one spike of the current train.
GstaSpike ==
    /\ UNCHANGED <<sweepVars, anaVars>>
    /\ g_pc = "g_loop"
    /\ g_trial <= Len(analog_signal)
    /\ g_nspk < MaxSpikes
    /\ \E t \in Times :
         LET ans == analog_signal[g_trial]
             idx == SampleBin(ans, t)
         IN /\ time' = t
            /\ IF StrictlyInside(ans, t) /\ WindowFits(ans, idx, Gstal)
               THEN /\ gsta' = [x \in DOMAIN gsta |->
                                  gsta[x] + Window(ans, idx, Gstal)[x]]
                    /\ count' = count + 1
               ELSE UNCHANGED <<gsta, count>>
            /\ g_inside' = (g_inside /\ StrictlyInside(ans, t))
    /\ g_nspk' = g_nspk + 1
    /\ g_seen' = g_seen + 1
    /\ UNCHANGED <<gstaInputs, g_pc, g_trial, g_result>>

\* Line 233: the current train is exhausted, on to the next pair of the zip.
GstaNextTrain ==
    /\ UNCHANGED <<sweepVars, anaVars>>
    /\ g_pc = "g_loop"
    /\ g_trial <= Len(analog_signal)
    /\ g_trial' = g_trial + 1
    /\ g_nspk' = 0
    /\ UNCHANGED <<gstaInputs, g_pc, time, gsta, count, g_result, g_seen, g_inside>>

\* A faulty variant of lines 240-242: the sum is not divided.
NoDivision(n) == 1

\* Lines 240-241.
Divisor(n) == IF n = 0 THEN 1 ELSE n

\* Lines 240-248: the returned signal is gsta / count, kept as a fraction.
GstaFinish ==
    /\ UNCHANGED <<sweepVars, anaVars>>
    /\ g_pc = "g_loop"
    /\ g_trial > Len(analog_signal)
    /\ g_result' = [num |-> gsta, den |-> Divisor(count)]
    /\ g_pc' = "g_done"
    /\ UNCHANGED <<gstaInputs, g_trial, g_nspk, time, gsta, count, g_seen, g_inside>>

GstaNext == GstaBegin \/ GstaSpike \/ GstaNextTrain \/ GstaFinish

(***************************************************************************)
(* The specifications, one per routine.                                    *)
(***************************************************************************)
SweepIdle ==
    /\ combinations = << >>
    /\ sweepKind = "one"
    /\ deviated = FALSE
    /\ pc = "idle"
    /\ i = 0
    /\ parameters = << >>
    /\ datastore = << >>
    /\ number_of_unloadable_datastores = 0
    /\ error = ""
    /\ value_names = {}
    /\ param_values = << >>
    /\ dimensions = << >>
    /\ matrix = NoMatrix
    /\ files = << >>
    /\ calls = << >>
    /\ saved = << >>

SweepInit == SweepStart /\ AnaIdle /\ GstaIdle
MRInit == SweepIdle /\ MRStart /\ GstaIdle
VAInit == SweepIdle /\ VAStart /\ GstaIdle
GstaInit == SweepIdle /\ AnaIdle /\ GstaStart

SpecSweep == SweepInit /\ [][SweepNext]_vars
SpecRun == SweepInit /\ [][RunNext]_vars
SpecMR == MRInit /\ [][MRNext]_vars
SpecVA == VAInit /\ [][VANext]_vars
SpecGSTA == GstaInit /\ [][GstaNext]_vars

PerformInit ==
    /\ SweepIdle
    /\ GstaIdle
    /\ (FRStart \/ VAStart \/ GPStart \/ PRStart \/ MRStart)

SpecPerform == PerformInit /\ [][PerformNext]_vars


(***************************************************************************)
(* Properties of the parameter search (checked under SpecSweep)            *)
(***************************************************************************)
KeySet(comb) == Range(comb.ins)

SameKeySets(combs) ==
    \A x, y \in DOMAIN combs : KeySet(combs[x]) = KeySet(combs[y])

\* The call ended in the assertion of line 32, before any store was loaded.
FailedOnParameterNames == pc = "raised" /\ i = 0

\* The load has returned and export_as_matricies is running or has ended.
InExport ==
    \/ pc \in {"loaded", "check", "fill", "done"}
    \/ pc = "raised" /\ i >= 1 /\ error \in {"IndexError", "AssertionError"}

Ended == pc \in {"done", "raised"}

\* The value names export_as_matricies exports: those of the first store.
ExportedNames ==
    IF datastore = << >> THEN {}
    ELSE {r.value_name : r \in Range(datastore[1].ds)}

Matches(store, v) == Len(WithValueName(Query(store), v))

SomeStoreNotUnique ==
    \E y \in DOMAIN datastore : \E v \in ExportedNames :
        Matches(datastore[y].ds, v) # 1

Filled(m) == Cardinality({t \in DOMAIN m : m[t] # NaN})

HasDuplicate(combs) ==
    \E x, y \in DOMAIN combs : x # y /\ combs[x].val = combs[y].val

\* Some cell of the grid spanned by the manifest's values is in no combination.
HasAbsentCell(combs) ==
    LET K == KeySet(combs[1])
        V == UNION {Range(combs[x].val) : x \in DOMAIN combs}
    IN \E c \in [K -> V] :
         /\ \A k \in K : \E x \in DOMAIN combs : combs[x].val[k] = c[k]
         /\ \A x \in DOMAIN combs : combs[x].val # c

\* The manifest covers every cell of its grid exactly once.
FullGridOnce(combs) ==
    /\ combs # << >>
    /\ SameKeySets(combs)
    /\ ~HasDuplicate(combs)
    /\ ~HasAbsentCell(combs)

\* The shape of the grid of the manifest, in the order of `parameters`.
GridShape ==
    [x \in DOMAIN parameters |->
        Cardinality({combinations[y].val[parameters[x]] : y \in DOMAIN combinations})]

\* The parameter values of the cell t of an exported array.
CellValues(t) == [x \in DOMAIN t |-> param_values[x][t[x] + 1]]

LoadedValues == {datastore[y].pv : y \in DOMAIN datastore}

\* C1: a store that fails to load, missing or corrupt, never aborts the load:
\* the load is not ended by the loader's exception, and when it returns,
\* len(loaded) + unloadable_count is the number of combinations.
C1_LoadFailureNeverAborts ==
    /\ ~(pc = "raised" /\ error = "UnpicklingError")
    /\ pc = "loaded" =>
         Len(datastore) + number_of_unloadable_datastores = Len(combinations)

\* C2: once the manifest is read, the load has failed on the parameter names,
\* before any store is loaded, if and only if the combinations do not all
\* have the same set of parameter names (stated for a manifest that is not
\* empty; the insertion order of the names does not matter).
C2_FailsIffKeySetsDiffer ==
    (pc # "start" /\ combinations # << >>) =>
        (FailedOnParameterNames <=> ~SameKeySets(combinations))

\* C3: if the query yields zero or several SingleValues of an exported value
\* name in some loaded store, the export never gets past the check of the
\* stores: it ends in the assertion error, no array is built and no file is
\* written.
C3_NoExportUnlessUnique ==
    (InExport /\ SomeStoreNotUnique) =>
        /\ pc \in {"loaded", "check", "raised"}
        /\ pc = "check" => i <= Len(datastore)
        /\ pc = "raised" => error = "AssertionError"
        /\ matrix = NoMatrix
        /\ files = << >>

C3_Witness ==
    /\ pc = "raised"
    /\ error = "AssertionError"
    /\ InExport
    /\ Len(datastore) = 3
    /\ i = 2
    /\ Matches(datastore[1].ds, "v") = 1
    /\ Matches(datastore[2].ds, "v") # 1

\* C4: an array is built, or a file written, only after the size check has
\* passed: len(loaded) + unloadable_count is then the product of the
\* dimensions; on a mismatch the export ends in the assertion error with no
\* array built and no file written.
C4_CompletenessBeforeGrid ==
    /\ (matrix # NoMatrix \/ files # << >> \/ pc \in {"fill", "done"}) =>
         Len(datastore) + number_of_unloadable_datastores = Prod(dimensions)
    /\ (dimensions # << >>
        /\ Len(datastore) + number_of_unloadable_datastores # Prod(dimensions)) =>
         /\ pc = "raised"
         /\ error = "AssertionError"
         /\ matrix = NoMatrix
         /\ files = << >>

\* A 2x2 sweep whose manifest lacks one of the 4 combinations.
C4_Witness ==
    /\ pc = "raised"
    /\ error = "AssertionError"
    /\ dimensions = <<2, 2>>
    /\ Len(combinations) = 3
    /\ Len(datastore) = 3
    /\ number_of_unloadable_datastores = 0

\* C5: in every array written, the filled cells plus the unloadable
\* combinations are as many as the cells of the grid; and a manifest with a
\* duplicated combination and an absent one yields no output.
C5_FilledPlusUnloadable ==
    /\ \A v \in DOMAIN files :
         Filled(files[v]) + number_of_unloadable_datastores = Prod(dimensions)
    /\ (combinations # << >> /\ SameKeySets(combinations)
        /\ HasDuplicate(combinations) /\ HasAbsentCell(combinations)) =>
         (files = << >> /\ pc # "done")

\* C6: when the manifest covers its grid exactly once, every store loads and
\* holds one matching SingleValue per exported name, the export ends normally
\* and each exported array has the shape of the grid and no NaN cell.
C6_FullGridNoNaN ==
    (/\ Ended
     /\ FullGridOnce(combinations)
     /\ Len(datastore) = Len(combinations)
     /\ ~SomeStoreNotUnique) =>
        /\ pc = "done"
        /\ \A v \in ExportedNames :
             /\ v \in DOMAIN files
             /\ DOMAIN files[v] = IndexTuples(GridShape)
             /\ Filled(files[v]) = Prod(GridShape)

\* C7: when the manifest covers its grid exactly once and some stores are
\* missing (each loaded one holding one matching SingleValue per exported
\* name), the export still ends normally, and the NaN cells of each array are
\* exactly the cells of the combinations that were not loaded.
C7_UnloadableExcluded ==
    (/\ Ended
     /\ FullGridOnce(combinations)
     /\ number_of_unloadable_datastores >= 1
     /\ Len(datastore) + number_of_unloadable_datastores = Len(combinations)
     /\ ~SomeStoreNotUnique) =>
        /\ pc = "done"
        /\ \A v \in DOMAIN files : \A t \in DOMAIN files[v] :
             (files[v][t] = NaN) <=> (CellValues(t) \notin LoadedValues)

\* The loaded combinations whose parameter values are those of the cell t.
WritersOf(t) ==
    {y \in DOMAIN datastore : IndexList(param_values, datastore[y].pv) = t}

\* What the cell t of the array of v holds when each loaded combination, in
\* order, sets the one cell of its multi-index.
CellByCell(v, t) ==
    IF WritersOf(t) = {} THEN NaN
    ELSE LET y == CHOOSE w \in WritersOf(t) : \A u \in WritersOf(t) : u <= w
         IN WithValueName(Query(datastore[y].ds), v)[1].value

Ascending(list) == \A a, b \in DOMAIN list : a < b => list[a] < list[b]

\* C13: the axes of the grid are the ascending distinct values of each
\* parameter; no write of a combination's value raises; and every array
\* written holds, in each cell, the value of the loaded combination whose
\* multi-index is that cell (NaN when there is none): each write set the one
\* cell of its multi-index and left every other cell as it was.
C13_OneCellPerWrite ==
    /\ \A x \in DOMAIN param_values : Ascending(param_values[x])
    /\ ~(pc = "raised" /\ error = "IndexError" /\ dimensions # << >>)
    /\ \A v \in DOMAIN files : \A t \in DOMAIN files[v] :
         files[v][t] = CellByCell(v, t)


(***************************************************************************)
(* Properties of run_analysis_on_parameter_search (checked under SpecRun)  *)
(***************************************************************************)
\* The x-th call of analysis_function got the store of the x-th loaded
\* combination as its argument.
CalledWithStore(x) ==
    /\ calls[x].type = "PickledDataStore"
    /\ calls[x].value = datastore[x].ds

\* The x-th save was that of the store of the x-th loaded combination.
SavedStore(x) ==
    /\ saved[x].type = "PickledDataStore"
    /\ saved[x].value = datastore[x].ds

\* C11: the loaded combinations are processed one after the other in the
\* order of the manifest: the x-th call of analysis_function has the x-th
\* loaded store as its argument, that store is saved before the next call,
\* the run is not ended by the save, and when analysis_function never raises
\* the run returns with every loaded store analysed and saved.
C11_AnalysedThenSavedInOrder ==
    /\ \A x \in DOMAIN calls : CalledWithStore(x)
    /\ \A x \in DOMAIN saved : SavedStore(x)
    /\ Len(saved) <= Len(calls)
    /\ Len(calls) <= Len(saved) + 1
    /\ ~(pc = "raised" /\ error = "AttributeError")
    /\ pc = "run_done" =>
         (Len(calls) = Len(datastore) /\ Len(saved) = Len(datastore))

(***************************************************************************)
(* Properties of ModulationRatio.perform_analysis (checked under SpecMR)   *)
(***************************************************************************)
CurrentSheet == sheet_list[sheet_i]

PreferenceCount(s) == Len(OrientationPreferences(analysis_results, s))

HasModulationRatio(s) ==
    \E x \in DOMAIN analysis_results :
        /\ analysis_results[x].value_name = "Modulation ratio"
        /\ analysis_results[x].sheet_name = s

\* C8: a sheet whose 'orientation preference' PerNeuronValues are not exactly
\* one never gets a 'Modulation ratio' record; the routine goes on to the
\* modulation ratios of a sheet only with exactly one, returns (None, with no
\* exception) at the sheet where it finds zero or several, and the only
\* exception it ever raises is that of the assertions on the sheet's view.
C8_NotExactlyOneReturnsNone ==
    /\ \A s \in Sheets : PreferenceCount(s) # 1 => ~HasModulationRatio(s)
    /\ a_pc = "mr_groups" => PreferenceCount(CurrentSheet) = 1
    /\ a_pc = "mr_returned" => (PreferenceCount(CurrentSheet) # 1 /\ a_error = "")
    /\ a_pc = "raised" => (a_error = "AssertionError" /\ ~asserts_pass[CurrentSheet])

\* The second sheet has two records: the routine returned there, after the
\* modulation ratios of the first sheet were added.
C8_Witness ==
    /\ a_pc = "mr_returned"
    /\ sheet_i = 2
    /\ PreferenceCount(CurrentSheet) = 2
    /\ HasModulationRatio(sheet_list[1])
    /\ ~HasModulationRatio(CurrentSheet)

(***************************************************************************)
(* Properties of the record store (checked under SpecPerform)              *)
(***************************************************************************)
IsPrefix(s, t) == Len(s) <= Len(t) /\ \A x \in DOMAIN s : t[x] = s[x]

\* C12: every step of the perform_analysis of TrialAveragedFiringRate, the
\* vector average, GSTA, Precision and ModulationRatio leaves the records
\* already in the store in place and unmodified: the record sequence after
\* the step has the sequence before it as a prefix.
C12_AppendOnly == [][IsPrefix(analysis_results, analysis_results')]_vars

\* ModulationRatio has ended on a store that held the orientation preference
\* of each of its two sheets: the two records are still the first ones and
\* the modulation ratios follow them.
C12_Witness ==
    /\ a_pc = "mr_done"
    /\ Len(sheet_list) = 2
    /\ Len(analysis_results) >= 4
    /\ analysis_results[1].value_name = "orientation preference"
    /\ analysis_results[2].value_name = "orientation preference"
    /\ analysis_results[3].value_name = "Modulation ratio"
    /\ analysis_results[Len(analysis_results)].value_name = "Modulation ratio"

(***************************************************************************)
(* Properties of GSTA.do_gsta (checked under SpecGSTA)                     *)
(***************************************************************************)
ConstantAt(c) ==
    \A x \in DOMAIN analog_signal :
        \A k \in DOMAIN analog_signal[x].samples : analog_signal[x].samples[k] = c

\* Every sample of the returned signal is the value v.
ResultIs(v) ==
    /\ DOMAIN g_result.num = 1..(2 * Gstal + 1)
    /\ \A x \in DOMAIN g_result.num : g_result.num[x] = v * g_result.den

WithinTrace(ans, idx, gstal) ==
    idx - gstal >= 0 /\ idx + gstal + 1 <= Len(ans.samples)

\* The spike at time t of the train of the trace ans qualifies.
Qualifies(ans, t) ==
    StrictlyInside(ans, t) /\ WithinTrace(ans, SampleBin(ans, t), Gstal)

\* C14: a spike is counted exactly when it lies strictly inside the signal
\* window of its trial and its window of 2*gstal+1 samples lies within the
\* trace (a window starting at the first sample included): it then adds its
\* window once to the sum and one to the count, and any other spike changes
\* neither; the result is the sum over the count, over 1 when no spike
\* qualified.
C14_CountsQualifyingSpikes ==
    [][/\ g_seen' = g_seen + 1 =>
            LET ans == analog_signal[g_trial]
            IN IF Qualifies(ans, time')
               THEN /\ count' = count + 1
                    /\ gsta' = [x \in DOMAIN gsta |->
                                  gsta[x] + Window(ans, SampleBin(ans, time'), Gstal)[x]]
               ELSE count' = count /\ gsta' = gsta
       /\ (g_pc = "g_loop" /\ g_pc' = "g_done") =>
            g_result' = [num |-> gsta, den |-> IF count = 0 THEN 1 ELSE count]
      ]_vars

(***************************************************************************)
(* Properties of the vector average (checked under SpecVA)                 *)
(***************************************************************************)
FiringRatesOf(s) ==
    SelectSeq(analysis_results,
              LAMBDA r : r.value_name = "Firing rate" /\ r.sheet_name = s)

GroupsOf(s) == {r.stimulus_id.group : r \in Range(FiringRatesOf(s))}

RecordCount(name, s, g) ==
    Len(SelectSeq(analysis_results,
                  LAMBDA r : /\ r.value_name = name
                             /\ r.sheet_name = s
                             /\ r.stimulus_id.group = g))

\* C10: when the routine has ended, every sheet of the store that holds
\* PerNeuronValues has, for every group of its stimuli, exactly one
\* 'orientation preference' and exactly one 'orientation selectivity' record.
C10_EverySheetEveryGroup ==
    a_pc = "va_done" =>
        \A s \in Range(sheet_list) : \A g \in GroupsOf(s) :
            /\ RecordCount("orientation preference", s, g) = 1
            /\ RecordCount("orientation selectivity", s, g) = 1

====
